---- MODULE Spec2Model ----
(***************************************************************************)
(* Credential & token authority of the LeGenerateurDigital backend         *)
(* (src/main.py): bcrypt password hashing with a 72-byte truncation,       *)
(* HS256 bearer tokens signed with the process-wide JWT_SECRET, and the    *)
(* request handlers (register, login, get_current_user) that call them.    *)
(*                                                                         *)
(* Time is counted in ticks of 1/TicksPerSec second, so that the           *)
(* truncation to whole seconds done by the JWT library when it writes and  *)
(* checks the "exp" claim is visible.  The MAC and the password hash are   *)
(* ideal: HMAC and bcrypt are the pairs of their inputs, so two values     *)
(* are equal exactly when their inputs are.  Random draws (os.urandom,     *)
(* bcrypt.gensalt) are fresh values.                                       *)
(***************************************************************************)
EXTENDS Integers, Sequences, FiniteSets, TLC

VARIABLES
    env,          \* env[i]: the JWT_SECRET environment value of process i
    JWT_SECRET,   \* JWT_SECRET[i]: the module global of process i
    now,          \* the wall clock (datetime.utcnow), in ticks
    users,        \* the rows of table user (shared database)
    saltsDrawn,   \* how many salts bcrypt.gensalt has returned
    issued,       \* the token the client holds (its latest), with its issuance
    creds,        \* values returned by direct calls of get_password_hash
    expiredSeen,  \* token strings of the client that failed on expiry
    resp,         \* the outcome of the last call or request
    idees,        \* the rows of table ideeentreprise (shared database)
    fs,           \* the temporary directories that exist, with their files
    pdf,          \* pdf[r]: where request r of POST /guides/pdf stands
    boot          \* the run of init_db_with_retry at startup

vars == <<env, JWT_SECRET, now, users, saltsDrawn, issued, creds, expiredSeen,
          resp, idees, fs, pdf, boot>>

(***************************************************************************)
(* Bounds of the model                                                     *)
(***************************************************************************)
MaxSalts == 2        \* calls of gensalt
MaxSmallNow == 2     \* ticks the clock makes before and after its jump
MaxTtl == 2          \* explicit expires_delta: -MaxTtl .. MaxTtl ticks
TicksPerSec == 2     \* resolution of the clock below one second

(***************************************************************************)
(* Program constants                                                       *)
(***************************************************************************)
ACCESS_TOKEN_EXPIRE_MINUTES == 60
BcryptMaxBytes == 72

Inst == {1, 2}       \* process instances (two workers, or before/after restart)

None == "None"       \* Python's None

Ret(v) == [k |-> "return", v |-> v]          \* a call that returned v
Raise(e) == [k |-> "raise", v |-> e]         \* a call that raised exception e

Min(a, b) == IF a < b THEN a ELSE b

(***************************************************************************)
(* Strings and their UTF-8 encoding                                        *)
(*                                                                         *)
(* A str is a sequence of characters.  "a", "X", "Y" are ASCII (one byte), *)
(* "eacute" and "egrave" stand for U+00E9 and U+00E8 (two bytes each, the  *)
(* same lead byte), "ud800" is a lone surrogate, which str.encode("utf-8") *)
(* refuses with UnicodeEncodeError.                                        *)
(***************************************************************************)
Surrogate == "ud800"

Utf8Char(c) ==
    CASE c = "a" -> <<97>>
      [] c = "X" -> <<88>>
      [] c = "Y" -> <<89>>
      [] c = "eacute" -> <<195, 169>>
      [] c = "egrave" -> <<195, 168>>

RECURSIVE Utf8Bytes(_)
Utf8Bytes(s) ==
    IF s = <<>> THEN <<>> ELSE Utf8Char(Head(s)) \o Utf8Bytes(Tail(s))

Encodable(s) == \A n \in 1..Len(s) : s[n] # Surrogate

\* "a" * n
Pad(n) == [m \in 1..n |-> "a"]
\* passwords around the 72-byte limit: 72 bytes that differ in the last one,
\* 73 bytes that differ in the last one only, and the empty and the
\* unencodable password
Passwords ==
    { <<>>, <<Surrogate>>, <<"X">>,
      Pad(BcryptMaxBytes - 1) \o <<"X">>,
      Pad(BcryptMaxBytes),
      Pad(BcryptMaxBytes - 1) \o <<"eacute">>,
      Pad(BcryptMaxBytes - 1) \o <<"egrave">>,
      Pad(BcryptMaxBytes) \o <<"X">> }
ShortPasswords == {<<>>, <<"X">>, <<"Y">>}

\* the encodings of the passwords of the model, computed once
Utf8Table == [s \in {p \in Passwords \cup ShortPasswords : Encodable(p)} |-> Utf8Bytes(s)]

\* str.encode("utf-8")
StrEncode(s) ==
    IF Encodable(s) THEN Ret(Utf8Table[s]) ELSE Raise("UnicodeEncodeError")

\* b[:n]
Slice(b, n) == SubSeq(b, 1, Min(n, Len(b)))

(***************************************************************************)
(* bcrypt.  An encoded hash "$2b$12$<salt><digest>" is a record; kind says *)
(* what the stored str is: a bcrypt encoding, a str that is no bcrypt      *)
(* encoding, a str with a lone surrogate, or None.                         *)
(***************************************************************************)
HashStr(salt, digest) == [kind |-> "bcrypt", salt |-> salt, digest |-> digest]
MalformedStr == [kind |-> "malformed", salt |-> 0, digest |-> <<>>]
SurrogateStr == [kind |-> "surrogate", salt |-> 0, digest |-> <<>>]
NoneStr == [kind |-> "none", salt |-> 0, digest |-> <<>>]

\* the digest of an ideal bcrypt: determined by, and determining, salt and key
BcryptDigest(salt, pwBytes) == <<salt, pwBytes>>

\* bcrypt.hashpw(password, salt), salt given as a gensalt value
hashpw(pwBytes, salt) == HashStr(salt, BcryptDigest(salt, pwBytes))

\* bcrypt.checkpw(password, hashed_password): rehash with the salt embedded
\* in hashed_password and compare; ValueError("Invalid salt") when
\* hashed_password is no bcrypt encoding
checkpw(pwBytes, hashed) ==
    IF hashed.kind # "bcrypt" THEN Raise("ValueError")
    ELSE Ret(hashpw(pwBytes, hashed.salt) = hashed)

\* hashed_password.encode("utf-8")
HashedEncode(h) ==
    CASE h.kind = "none" -> Raise("AttributeError")
      [] h.kind = "surrogate" -> Raise("UnicodeEncodeError")
      [] OTHER -> Ret(h)

\* get_password_hash without its test of the empty password
get_password_hash_NoEmptyTest(password, salt) ==
    LET enc == StrEncode(password) IN
    IF enc.k = "raise" THEN enc
    ELSE Ret(hashpw(Slice(enc.v, BcryptMaxBytes), salt))

\* get_password_hash that hashes the whole encoding, not its first 72 bytes
get_password_hash_NoTrunc(password, salt) ==
    IF password = <<>> THEN Raise("ValueError")
    ELSE LET enc == StrEncode(password) IN
         IF enc.k = "raise" THEN enc
         ELSE Ret(hashpw(enc.v, salt))

\* get_password_hash(password), with the salt gensalt() returns
get_password_hash(password, salt) ==
    IF password = <<>> THEN Raise("ValueError")
    ELSE LET enc == StrEncode(password) IN
         IF enc.k = "raise" THEN enc
         ELSE Ret(hashpw(Slice(enc.v, BcryptMaxBytes), salt))

\* the body of the try block of verify_password
verify_password_try(plain_password, hashed_password) ==
    LET enc == StrEncode(plain_password) IN
    IF enc.k = "raise" THEN enc
    ELSE LET h == HashedEncode(hashed_password) IN
         IF h.k = "raise" THEN h
         ELSE checkpw(Slice(enc.v, BcryptMaxBytes), h.v)

\* verify_password without its except clause
verify_password_NoExcept(plain_password, hashed_password) ==
    verify_password_try(plain_password, hashed_password)

\* verify_password(plain_password, hashed_password): except Exception -> False
verify_password(plain_password, hashed_password) ==
    LET r == verify_password_try(plain_password, hashed_password) IN
    IF r.k = "raise" THEN Ret(FALSE) ELSE r

(***************************************************************************)
(* JSON Web Tokens (python-jose, HS256)                                    *)
(*                                                                         *)
(* A token string "<header>.<payload>.<signature>" is a record: wf says    *)
(* whether it splits into three base64url segments that decode to JSON     *)
(* objects, alg is the "alg" of its header, sub and exp are the claims of  *)
(* its payload (NoSub: the payload has no "sub"), mac is the value its     *)
(* signature segment decodes to, and pad the two low bits of the last      *)
(* signature character, which base64 decoding drops.                       *)
(***************************************************************************)
ALGORITHM == "HS256"
NoSub == "<absent>"

\* calendar.timegm(d.utctimetuple()): whole seconds, the fraction dropped
timegm(t) == t \div TicksPerSec

\* HMAC-SHA256 of the signing input under key (ideal: the pair itself)
HMAC(key, alg, sub, exp) == [key |-> key, alg |-> alg, sub |-> sub, exp |-> exp]

\* jwt.encode(claims, key, algorithm): a datetime "exp" becomes whole seconds
jwt_encode(sub, expire, key, algorithm) ==
    [wf |-> TRUE, alg |-> algorithm, sub |-> sub, exp |-> timegm(expire),
     mac |-> HMAC(key, algorithm, sub, timegm(expire)), pad |-> 0]

\* an expires_delta argument: None, or a timedelta of so many ticks
NoDelta == [given |-> FALSE, ticks |-> 0]
Delta(d) == [given |-> TRUE, ticks |-> d]

\* Python truth value of expires_delta: None and timedelta(0) are false
DeltaTruthy(delta) == delta.given /\ delta.ticks # 0

DefaultDelta == ACCESS_TOKEN_EXPIRE_MINUTES * 60 * TicksPerSec

\* create_access_token that encodes the expiry alone, not the copy of data
create_access_token_ExpOnly(sub, expires_delta, key, t) ==
    LET expire == t + (IF DeltaTruthy(expires_delta) THEN expires_delta.ticks
                       ELSE DefaultDelta)
    IN  jwt_encode(NoSub, expire, key, ALGORITHM)

\* create_access_token({"sub": sub} or {}, expires_delta) at time t
create_access_token(sub, expires_delta, key, t) ==
    LET expire == t + (IF DeltaTruthy(expires_delta) THEN expires_delta.ticks
                       ELSE DefaultDelta)
    IN  jwt_encode(sub, expire, key, ALGORITHM)

\* jose.exceptions: ExpiredSignatureError and JWTClaimsError derive from JWTError
IsJWTError(e) == e \in {"JWTError", "ExpiredSignatureError", "JWTClaimsError"}

\* jwt.decode that rejects a token from its expiry second on
jwt_decode_Strict(token, key, algorithms, t) ==
    CASE ~token.wf -> Raise("JWTError")
      [] token.wf /\ token.alg \notin algorithms -> Raise("JWTError")
      [] token.wf /\ token.alg \in algorithms
         /\ token.mac # HMAC(key, token.alg, token.sub, token.exp) ->
            Raise("JWTError")
      [] OTHER ->
            IF token.exp <= timegm(t) THEN Raise("ExpiredSignatureError")
            ELSE Ret([sub |-> token.sub, exp |-> token.exp])

\* jwt.decode that does not check the signature
jwt_decode_NoSig(token, key, algorithms, t) ==
    CASE ~token.wf -> Raise("JWTError")
      [] token.wf /\ token.alg \notin algorithms -> Raise("JWTError")
      [] OTHER ->
            IF token.exp < timegm(t) THEN Raise("ExpiredSignatureError")
            ELSE Ret([sub |-> token.sub, exp |-> token.exp])

\* jwt.decode(token, key, algorithms) at time t: the segments are split and
\* decoded (JWSError -> JWTError), the header alg must be allowed, the
\* signature must match, then _validate_exp: exp < now raises
\* ExpiredSignatureError, now being timegm(datetime.utcnow().utctimetuple())
jwt_decode(token, key, algorithms, t) ==
    CASE ~token.wf -> Raise("JWTError")
      [] token.wf /\ token.alg \notin algorithms -> Raise("JWTError")
      [] token.wf /\ token.alg \in algorithms
         /\ token.mac # HMAC(key, token.alg, token.sub, token.exp) ->
            Raise("JWTError")
      [] OTHER ->
            IF token.exp < timegm(t) THEN Raise("ExpiredSignatureError")
            ELSE Ret([sub |-> token.sub, exp |-> token.exp])

\* decode_token(token) in a process whose JWT_SECRET is key
decode_token(token, key, t) == jwt_decode(token, key, {ALGORITHM}, t)

(***************************************************************************)
(* Process start: the signing secret                                       *)
(***************************************************************************)
\* os.urandom(48).hex() in process i: a value no other draw returns
UrandomHex(i) == IF i = 1 THEN "urandom-1" ELSE "urandom-2"

\* JWT_SECRET = os.getenv("JWT_SECRET"); if not JWT_SECRET: os.urandom(48).hex()
StartupSecret(envValue, i) ==
    IF envValue \in {None, ""} THEN UrandomHex(i) ELSE envValue

(***************************************************************************)
(* The database and the request handlers                                   *)
(***************************************************************************)
\* class User: the columns the handlers read
UserRow(id, email, hashed) ==
    [id |-> id, email |-> email, hashed_password |-> hashed]

\* the primary key the database gives the next row of a table: one more
\* than the largest in use (no row of table user is ever deleted)
NextId(rows) ==
    IF rows = {} THEN 1
    ELSE (CHOOSE m \in {r.id : r \in rows} : \A r \in rows : r.id <= m) + 1

\* session.exec(select(User).where(User.email == email)).first()
UserByEmail(db, email) == {u \in db : u.email = email}

\* an HTTP answer: status code, detail of the HTTPException, returned body
Answer(status, detail, body) == [status |-> status, detail |-> detail, body |-> body]
NoBody == [id |-> 0, email |-> "", hashed_password |-> NoneStr]

NoToken ==
    [wf |-> FALSE, alg |-> "", sub |-> "", exp |-> 0,
     mac |-> HMAC("", "", "", 0), pad |-> 0]

cred_exc == Answer(401, "Invalid credentials", NoBody)

\* an exception no handler catches: the framework answers 500
Unhandled == Answer(500, "Internal Server Error", NoBody)

\* "except JWTError" catching the base class only
CaughtAsJWTError_ExactClass(e) == e = "JWTError"

\* "except JWTError" in get_current_user: the class and its subclasses
CaughtAsJWTError(e) == IsJWTError(e)

\* get_current_user(token, session) in a process whose JWT_SECRET is key
get_current_user(token, key, t, db) ==
    LET payload == decode_token(token, key, t) IN
    IF payload.k = "raise"
    THEN IF CaughtAsJWTError(payload.v) THEN cred_exc ELSE Unhandled
    ELSE LET email == payload.v.sub IN
         IF email \in {NoSub, ""} THEN cred_exc
         ELSE IF UserByEmail(db, email) = {} THEN cred_exc
         ELSE Answer(200, "", CHOOSE u \in UserByEmail(db, email) : TRUE)

\* str(e) of what the try block of register raised
RegisterErrorText(e) ==
    CASE e = "HTTPException400" -> "400: Email already registered"
      [] e = "ValueError" -> "Password cannot be empty"
      [] OTHER -> e

\* bcrypt.gensalt() that returns the same salt at every call
gensalt_Fixed(drawn) == 1

\* bcrypt.gensalt(): the next salt, one no earlier call returned
gensalt(drawn) == drawn + 1

Issuance(tok, i, sub, delta) ==
    [tok |-> tok, by |-> i, at |-> now, delta |-> delta, sub |-> sub]

(***************************************************************************)
(* Operations                                                              *)
(***************************************************************************)
\* a direct call get_password_hash(password)
HashPassword(password) ==
    LET out == get_password_hash(password, gensalt(saltsDrawn)) IN
    /\ out.k = "return" => saltsDrawn < MaxSalts
    /\ saltsDrawn' = IF out.k = "return" THEN saltsDrawn + 1 ELSE saltsDrawn
    /\ creds' = IF out.k = "return"
                THEN creds \cup {[pw |-> password, hash |-> out.v,
                                  call |-> saltsDrawn + 1]}
                ELSE creds
    /\ resp' = [op |-> "hash", pw |-> password, hashed |-> NoneStr, out |-> out]
    /\ UNCHANGED <<env, JWT_SECRET, now, users, issued, expiredSeen,
                   idees, fs, pdf, boot>>

\* a direct call verify_password(plain_password, hashed_password)
VerifyPassword(plain_password, hashed_password) ==
    /\ resp' = [op |-> "verify", pw |-> plain_password,
                hashed |-> hashed_password,
                out |-> verify_password(plain_password, hashed_password)]
    /\ UNCHANGED <<env, JWT_SECRET, now, users, saltsDrawn, issued,
                   creds, expiredSeen,
                   idees, fs, pdf, boot>>

\* register(payload, session) at time t in a process whose JWT_SECRET is
\* key: the answer, the token in it, the table afterwards, and whether a
\* salt was drawn.  The try block raises HTTPException(400) for a known
\* email and whatever get_password_hash raises; "except Exception" turns
\* both into HTTPException(500, str(e)).
register(db, email, password, drawn, key, t) ==
    LET hashed == get_password_hash(password, gensalt(drawn))
        raised == IF UserByEmail(db, email) # {} THEN "HTTPException400"
                  ELSE IF hashed.k = "raise" THEN hashed.v
                  ELSE "none"
    IN  IF raised # "none"
        THEN [ans |-> Answer(500, RegisterErrorText(raised), NoBody),
              token |-> NoToken, db |-> db, drew |-> FALSE]
        ELSE [ans |-> Answer(201, "", UserRow(NextId(db), email, hashed.v)),
              token |-> create_access_token(email, NoDelta, key, t),
              db |-> db \cup {UserRow(NextId(db), email, hashed.v)},
              drew |-> TRUE]

\* login(form, session) at time t in a process whose JWT_SECRET is key; an
\* exception out of verify_password is caught by no one
login(db, username, password, key, t) ==
    LET found == UserByEmail(db, username)
        user == CHOOSE u \in found : TRUE
        checked == verify_password(password, user.hashed_password)
    IN  IF found = {}
        THEN [ans |-> Answer(400, "Incorrect email or password", NoBody),
              token |-> NoToken]
        ELSE IF checked.k = "raise"
        THEN [ans |-> Unhandled, token |-> NoToken]
        ELSE IF ~checked.v
        THEN [ans |-> Answer(400, "Incorrect email or password", NoBody),
              token |-> NoToken]
        ELSE [ans |-> Answer(200, "", user),
              token |-> create_access_token(username, NoDelta, key, t)]

\* POST /auth/register handled by process i
Register(i, email, password) ==
    LET r == register(users, email, password, saltsDrawn, JWT_SECRET[i], now) IN
    /\ r.drew => saltsDrawn < MaxSalts
    /\ users' = r.db
    /\ saltsDrawn' = IF r.drew THEN saltsDrawn + 1 ELSE saltsDrawn
    /\ issued' = IF r.token = NoToken THEN issued
                 ELSE {Issuance(r.token, i, email, NoDelta)}
    /\ expiredSeen' = IF r.token = NoToken THEN expiredSeen ELSE {}
    /\ resp' = [op |-> "register", ans |-> r.ans, token |-> r.token]
    /\ UNCHANGED <<env, JWT_SECRET, now, creds,
                   idees, fs, pdf, boot>>

\* POST /auth/login handled by process i
Login(i, username, password) ==
    LET r == login(users, username, password, JWT_SECRET[i], now) IN
    /\ issued' = IF r.token = NoToken THEN issued
                 ELSE {Issuance(r.token, i, username, NoDelta)}
    /\ expiredSeen' = IF r.token = NoToken THEN expiredSeen ELSE {}
    /\ resp' = [op |-> "login", ans |-> r.ans, token |-> r.token]
    /\ UNCHANGED <<env, JWT_SECRET, now, users, saltsDrawn, creds,
                   idees, fs, pdf, boot>>

\* the token strings one changed character makes of a token: a header that
\* no longer parses or names another alg, a payload with another subject or
\* expiry, a signature with another value or with other dropped bits
Alterations(token) ==
    { [token EXCEPT !.wf = FALSE],
      [token EXCEPT !.alg = "HS257"],
      [token EXCEPT !.sub = "bob@x.com"],
      [token EXCEPT !.exp = token.exp + 1],
      [token EXCEPT !.mac = HMAC("?", token.alg, token.sub, token.exp)],
      [token EXCEPT !.pad = 1 - token.pad] } \ {token}

\* what a client can present: the tokens it was handed, and those altered
Presentable ==
    {r.tok : r \in issued} \cup UNION {Alterations(r.tok) : r \in issued}

\* create_access_token that also replaces the signing secret of its process
IssueToken_Rotates(i, sub, expires_delta) ==
    LET token == create_access_token(sub, expires_delta, JWT_SECRET[i], now) IN
    /\ issued' = {Issuance(token, i, sub, expires_delta)}
    /\ expiredSeen' = {}
    /\ resp' = [op |-> "issue", out |-> Ret(token)]
    /\ JWT_SECRET' = [JWT_SECRET EXCEPT ![i] = "rotated"]
    /\ UNCHANGED <<env, now, users, saltsDrawn, creds,
                   idees, fs, pdf, boot>>

\* a direct call create_access_token(data, expires_delta) in process i;
\* sub = NoSub is a data dict without "sub"
IssueToken(i, sub, expires_delta) ==
    LET token == create_access_token(sub, expires_delta, JWT_SECRET[i], now) IN
    /\ issued' = {Issuance(token, i, sub, expires_delta)}
    /\ expiredSeen' = {}
    /\ resp' = [op |-> "issue", out |-> Ret(token)]
    /\ UNCHANGED <<env, JWT_SECRET, now, users, saltsDrawn, creds,
                   idees, fs, pdf, boot>>

SeenExpired(i, token) ==
    IF LET r == decode_token(token, JWT_SECRET[i], now)
       IN  r.k = "raise" /\ r.v = "ExpiredSignatureError"
    THEN expiredSeen \cup {token} ELSE expiredSeen

\* a direct call decode_token(token) in process i
DecodeToken(i, token) ==
    /\ resp' = [op |-> "decode", inst |-> i, token |-> token, t |-> now,
                out |-> decode_token(token, JWT_SECRET[i], now)]
    /\ expiredSeen' = SeenExpired(i, token)
    /\ UNCHANGED <<env, JWT_SECRET, now, users, saltsDrawn, issued,
                   creds,
                   idees, fs, pdf, boot>>

\* GET /users/me handled by process i: the dependency get_current_user
Me(i, token) ==
    /\ resp' = [op |-> "me", inst |-> i, token |-> token,
                ans |-> get_current_user(token, JWT_SECRET[i], now, users)]
    /\ expiredSeen' = SeenExpired(i, token)
    /\ UNCHANGED <<env, JWT_SECRET, now, users, saltsDrawn, issued,
                   creds,
                   idees, fs, pdf, boot>>

\* the wall clock advances by one tick
Tick ==
    /\ now % DefaultDelta < MaxSmallNow
    /\ now' = now + 1
    /\ UNCHANGED <<env, JWT_SECRET, users, saltsDrawn, issued, creds,
                   expiredSeen, resp,
                   idees, fs, pdf, boot>>

\* the wall clock advances by ACCESS_TOKEN_EXPIRE_MINUTES
Hour ==
    /\ now < DefaultDelta
    /\ now' = now + DefaultDelta
    /\ UNCHANGED <<env, JWT_SECRET, users, saltsDrawn, issued, creds,
                   expiredSeen, resp,
                   idees, fs, pdf, boot>>

(***************************************************************************)
(* Business ideas (table ideeentreprise)                                   *)
(***************************************************************************)
MaxIdees == 3        \* primary keys of table ideeentreprise: 1..MaxIdees

\* class IdeeEntreprise: the columns delete_idee reads
IdeeRow(id, userId) == [id |-> id, userId |-> userId]

\* select(IdeeEntreprise).where(IdeeEntreprise.id == idee_id)
\*                       .where(IdeeEntreprise.userId == current_user.id)
IdeeOf(rows, idee_id, user_id) ==
    {d \in rows : d.id = idee_id /\ d.userId = user_id}

\* the detail of the HTTPException(404) of delete_idee, without its accents
IdeeIntrouvable == "Idee introuvable ou non autorisee"

\* str(e) of what the try block of delete_idee raised
DeleteErrorText(e) ==
    CASE e = "HTTPException404" -> "404: Idee introuvable ou non autorisee"
      [] OTHER -> e

\* delete_idee(idee_id, session, current_user): the answer and the table
\* afterwards.  The try block raises HTTPException(404) when the select
\* finds no row; "except Exception" rolls back and turns it into
\* HTTPException(500, str(e)).
delete_idee(rows, idee_id, current_user) ==
    LET found == IdeeOf(rows, idee_id, current_user.id)
        raised == IF found = {} THEN "HTTPException404" ELSE "none"
    IN  IF raised # "none"
        THEN [ans |-> Answer(500, DeleteErrorText(raised), NoBody),
              rows |-> rows]
        ELSE [ans |-> Answer(200, "", NoBody), rows |-> rows \ found]

\* POST /api/entreprise/idee handled by process i; the database gives the
\* new row a primary key above every key in use
CreateIdee(i, token, id) ==
    LET auth == get_current_user(token, JWT_SECRET[i], now, users) IN
    /\ \A d \in idees : d.id < id
    /\ idees' = IF auth.status = 200
                THEN idees \cup {IdeeRow(id, auth.body.id)} ELSE idees
    /\ resp' = [op |-> "create_idee", inst |-> i, token |-> token,
                idee_id |-> id,
                ans |-> IF auth.status = 200 THEN Answer(200, "", NoBody)
                        ELSE auth]
    /\ expiredSeen' = SeenExpired(i, token)
    /\ UNCHANGED <<env, JWT_SECRET, now, users, saltsDrawn, issued, creds,
                   fs, pdf, boot>>

\* DELETE /api/entreprise/idee/{idee_id} handled by process i: the
\* dependency get_current_user, then delete_idee
DeleteIdee(i, token, idee_id) ==
    LET auth == get_current_user(token, JWT_SECRET[i], now, users)
        r == delete_idee(idees, idee_id, auth.body)
    IN  /\ idees' = IF auth.status = 200 THEN r.rows ELSE idees
        /\ resp' = [op |-> "delete_idee", inst |-> i, token |-> token,
                    idee_id |-> idee_id,
                    ans |-> IF auth.status = 200 THEN r.ans ELSE auth]
        /\ expiredSeen' = SeenExpired(i, token)
        /\ UNCHANGED <<env, JWT_SECRET, now, users, saltsDrawn, issued, creds,
                       fs, pdf, boot>>

(***************************************************************************)
(* The guides endpoint (src/routes/guides.py)                              *)
(*                                                                         *)
(* generate_pdf runs in a worker thread, so the requests in flight         *)
(* interleave between its calls.  fs holds the temporary directories that  *)
(* exist, each with its files.  The framework sends the returned           *)
(* FileResponse after the handler has returned.                            *)
(***************************************************************************)
MaxRequests == 3     \* requests of POST /guides/pdf
Req == 1..MaxRequests

Guides == {"urssaf", "statut"}       \* GuideRequest.guide

\* f"guide_{req.guide}_{timestamp}.pdf"
PdfName(guide, t) == [guide |-> guide, stamp |-> timegm(t)]
NoFile == [guide |-> "", stamp |-> 0]

\* a directory, or a file of it
Path(dir, file) == [dir |-> dir, file |-> file]

\* tempfile.TemporaryDirectory() of request r: a name no other call returns
mkdtemp(r) == r

\* os.path.join(tmpdir, fname)
PdfPath(q) == Path(q.dir, PdfName(q.guide, q.at))

\* TemporaryDirectory.cleanup(): the directory goes with all its files
rmtree(files, dir) == {f \in files : f.dir # dir}

PdfIdle == [pc |-> "idle", guide |-> "", dir |-> 0, at |-> 0, out |-> 0]

\* "with tempfile.TemporaryDirectory() as tmpdir" is entered, fname and
\* fpath are computed
PdfEnter(r, guide) ==
    /\ pdf[r].pc = "idle"
    /\ fs' = fs \cup {Path(mkdtemp(r), NoFile)}
    /\ pdf' = [pdf EXCEPT ![r] = [pc |-> "in_with", guide |-> guide,
                                  dir |-> mkdtemp(r), at |-> now, out |-> 0]]
    /\ UNCHANGED <<env, JWT_SECRET, now, users, saltsDrawn, issued, creds,
                   expiredSeen, resp, idees, boot>>

\* build_pdf(fpath, req): doc.build writes the file, or raises; what it
\* raises leaves the with block, which removes the directory, and the
\* except clause answers 500
PdfBuild(r, ok) ==
    /\ pdf[r].pc = "in_with"
    /\ fs' = IF ok THEN fs \cup {PdfPath(pdf[r])} ELSE rmtree(fs, pdf[r].dir)
    /\ pdf' = [pdf EXCEPT ![r].pc = IF ok THEN "built" ELSE "answered",
                          ![r].out = IF ok THEN 0 ELSE 500]
    /\ UNCHANGED <<env, JWT_SECRET, now, users, saltsDrawn, issued, creds,
                   expiredSeen, resp, idees, boot>>

\* "return FileResponse(path=fpath, ...)": the response object is made (its
\* constructor does not open the file), the return leaves the with block,
\* which removes the directory, and the framework holds the response
PdfReturn(r) ==
    /\ pdf[r].pc = "built"
    /\ fs' = rmtree(fs, pdf[r].dir)
    /\ pdf' = [pdf EXCEPT ![r].pc = "returned"]
    /\ UNCHANGED <<env, JWT_SECRET, now, users, saltsDrawn, issued, creds,
                   expiredSeen, resp, idees, boot>>

\* the status FileResponse answers with when it is sent: os.stat(path)
\* fails for a file that is gone, RuntimeError, which the framework answers
\* with 500
FileResponseStatus(files, path) == IF path \in files THEN 200 ELSE 500

\* the framework sends the response of request r
PdfSend(r) ==
    /\ pdf[r].pc = "returned"
    /\ pdf' = [pdf EXCEPT ![r].pc = "sent",
                          ![r].out = FileResponseStatus(fs, PdfPath(pdf[r]))]
    /\ UNCHANGED <<env, JWT_SECRET, now, users, saltsDrawn, issued, creds,
                   expiredSeen, resp, idees, fs, boot>>

(***************************************************************************)
(* Startup: init_db_with_retry                                             *)
(*                                                                         *)
(* boot.attempt is the loop variable, boot.failed counts the passes        *)
(* through the except clause, checked and created say what the attempt     *)
(* under way has done, tables whether a create_all was committed.          *)
(***************************************************************************)
MaxAttempts == 3           \* max_attempts of the calls: 0..MaxAttempts, and the default
DefaultMaxAttempts == 12

BootOff ==
    [pc |-> "off", max_attempts |-> 0, attempt |-> 0, failed |-> 0,
     checked |-> FALSE, created |-> FALSE, tables |-> FALSE, result |-> None]

\* a loop that makes one pass more: range(1, max_attempts + 2)
ForNext_OneMore(b) ==
    IF b.attempt < b.max_attempts + 1
    THEN [b EXCEPT !.pc = "begin", !.attempt = @ + 1,
                   !.checked = FALSE, !.created = FALSE]
    ELSE [b EXCEPT !.pc = "done", !.result = "False"]

\* "for attempt in range(1, max_attempts + 1)": the next pass, or, the range
\* exhausted, "return False"
ForNext(b) ==
    IF b.attempt < b.max_attempts
    THEN [b EXCEPT !.pc = "begin", !.attempt = @ + 1,
                   !.checked = FALSE, !.created = FALSE]
    ELSE [b EXCEPT !.pc = "done", !.result = "False"]

\* "except Exception": the warning is logged, time.sleep(delay_sec) is next
Except(b) == [b EXCEPT !.pc = "sleep", !.failed = @ + 1]

\* init_db_with_retry(max_attempts) is called
BootStart(m) ==
    /\ boot.pc = "off"
    /\ boot' = ForNext([BootOff EXCEPT !.max_attempts = m])
    /\ UNCHANGED <<env, JWT_SECRET, now, users, saltsDrawn, issued, creds,
                   expiredSeen, resp, idees, fs, pdf>>

\* "with engine.begin() as conn": a connection and a transaction, or an error
BootBegin(ok) ==
    /\ boot.pc = "begin"
    /\ boot' = IF ok THEN [boot EXCEPT !.pc = "select"] ELSE Except(boot)
    /\ UNCHANGED <<env, JWT_SECRET, now, users, saltsDrawn, issued, creds,
                   expiredSeen, resp, idees, fs, pdf>>

\* conn.execute(text("SELECT 1")): the connection check
BootSelect(ok) ==
    /\ boot.pc = "select"
    /\ boot' = IF ok THEN [boot EXCEPT !.pc = "create", !.checked = TRUE]
               ELSE Except(boot)
    /\ UNCHANGED <<env, JWT_SECRET, now, users, saltsDrawn, issued, creds,
                   expiredSeen, resp, idees, fs, pdf>>

\* SQLModel.metadata.create_all(bind=conn)
BootCreateAll(ok) ==
    /\ boot.pc = "create"
    /\ boot' = IF ok THEN [boot EXCEPT !.pc = "commit", !.created = TRUE]
               ELSE Except([boot EXCEPT !.created = TRUE])
    /\ UNCHANGED <<env, JWT_SECRET, now, users, saltsDrawn, issued, creds,
                   expiredSeen, resp, idees, fs, pdf>>

\* the with block ends: the transaction is committed, then "return True"
BootCommit(ok) ==
    /\ boot.pc = "commit"
    /\ boot' = IF ok THEN [boot EXCEPT !.pc = "done", !.tables = TRUE,
                                       !.result = "True"]
               ELSE Except(boot)
    /\ UNCHANGED <<env, JWT_SECRET, now, users, saltsDrawn, issued, creds,
                   expiredSeen, resp, idees, fs, pdf>>

\* time.sleep(delay_sec) returns: the loop goes on
BootSleep ==
    /\ boot.pc = "sleep"
    /\ boot' = ForNext(boot)
    /\ UNCHANGED <<env, JWT_SECRET, now, users, saltsDrawn, issued, creds,
                   expiredSeen, resp, idees, fs, pdf>>

(***************************************************************************)
(* Inputs                                                                  *)
(***************************************************************************)
\* the JWT_SECRET environment of the two processes: unset in one and empty
\* in the other, the same key in both, two different keys
EnvConfigs ==
    { <<None, "">>, <<"k1", "k1">>, <<"k1", "k2">> }
Deltas == {NoDelta} \cup {Delta(d) : d \in (0 - MaxTtl)..MaxTtl}

\* the arguments of the direct calls of create_access_token
IssueInputs ==
    ({"alice@example.com"} \X Deltas) \cup ({"bob@x.com", "", NoSub} \X {NoDelta})

\* a stored bcrypt encoding cut short: the salt is whole, the digest is not
TruncatedStr == HashStr(1, <<>>)
StoredValues ==
    {c.hash : c \in creds} \cup {u.hashed_password : u \in users}
        \cup {MalformedStr, SurrogateStr, NoneStr, TruncatedStr}

\* a row of an earlier deployment whose hashed_password is no bcrypt encoding
LegacyRow == UserRow(1, "carol@x.com", MalformedStr)
\* a row registered earlier with password "X"
AliceRow == UserRow(1, "alice@example.com", hashpw(<<88>>, 0))

(***************************************************************************)
(* Specifications                                                          *)
(***************************************************************************)
InitWith(configs) ==
    /\ env \in configs
    /\ JWT_SECRET = [i \in Inst |-> StartupSecret(env[i], i)]
    /\ now = 0
    /\ saltsDrawn = 0
    /\ issued = {}
    /\ creds = {}
    /\ expiredSeen = {}
    /\ resp = [op |-> "start"]
    /\ fs = {}
    /\ pdf = [r \in Req |-> PdfIdle]
    /\ boot = BootOff

\* every operation, with short passwords, on a database that holds a row
\* of an earlier deployment
Init ==
    /\ InitWith(EnvConfigs)
    /\ users = {LegacyRow}
    /\ idees = {}

Next ==
    \/ \E p \in ShortPasswords : HashPassword(p)
    \/ \E p \in ShortPasswords, h \in StoredValues : VerifyPassword(p, h)
    \/ \E i \in Inst, p \in ShortPasswords : Register(i, "alice@example.com", p)
    \/ \E i \in Inst, e \in {"alice@example.com", "carol@x.com"},
          p \in ShortPasswords : Login(i, e, p)
    \/ \E i \in Inst, d \in {NoDelta, Delta(1)} :
          IssueToken(i, "alice@example.com", d)
    \/ \E i \in Inst, r \in issued : Me(i, r.tok)
    \/ Tick

Spec == Init /\ [][Next]_vars

\* the token authority, on a database that holds a registered user
InitTok ==
    /\ InitWith(EnvConfigs)
    /\ users = {AliceRow}
    /\ idees = {}

NextTok ==
    \/ \E i \in Inst, in \in IssueInputs : IssueToken(i, in[1], in[2])
    \/ \E i \in Inst, tok \in Presentable : DecodeToken(i, tok)
    \/ \E i \in Inst, tok \in Presentable : Me(i, tok)
    \/ Tick
    \/ Hour

SpecTok == InitTok /\ [][NextTok]_vars

\* the credential hasher, with passwords around the 72-byte limit
InitPw ==
    /\ InitWith({<<None, None>>})
    /\ users = {LegacyRow}
    /\ idees = {}

NextPw ==
    \/ \E p \in Passwords : HashPassword(p)
    \/ \E p \in Passwords, h \in StoredValues : VerifyPassword(p, h)
    \/ \E i \in Inst, p \in Passwords : Login(i, "carol@x.com", p)

SpecPw == InitPw /\ [][NextPw]_vars

\* the business ideas of two registered users, each with a token signed by
\* process 1 or 2, whose secrets differ
BobRow == UserRow(2, "bob@x.com", hashpw(<<89>>, 0))
IdeeIds == 1..MaxIdees

InitIdee ==
    /\ InitWith({<<"k1", "k2">>})
    /\ users = {AliceRow, BobRow}
    /\ idees = {IdeeRow(1, AliceRow.id), IdeeRow(2, BobRow.id)}

NextIdee ==
    \/ \E i \in Inst, sub \in {"alice@example.com", "bob@x.com"} :
          IssueToken(i, sub, NoDelta)
    \/ \E i \in Inst, tok \in Presentable, id \in IdeeIds : CreateIdee(i, tok, id)
    \/ \E i \in Inst, tok \in Presentable, id \in IdeeIds : DeleteIdee(i, tok, id)

SpecIdee == InitIdee /\ [][NextIdee]_vars

\* the guides endpoint, MaxRequests requests in flight
InitPdf ==
    /\ InitWith({<<None, None>>})
    /\ users = {}
    /\ idees = {}

NextPdf ==
    \/ \E r \in Req, g \in Guides : PdfEnter(r, g)
    \/ \E r \in Req, ok \in BOOLEAN : PdfBuild(r, ok)
    \/ \E r \in Req : PdfReturn(r)
    \/ \E r \in Req : PdfSend(r)

SpecPdf == InitPdf /\ [][NextPdf]_vars

\* startup.  Every call the loop makes returns or raises (a connection
\* attempt times out, time.sleep returns), so a step that can be taken is
\* taken.
InitDb ==
    /\ InitWith({<<None, None>>})
    /\ users = {}
    /\ idees = {}

NextDb ==
    \/ \E m \in (0..MaxAttempts) \cup {DefaultMaxAttempts} : BootStart(m)
    \/ \E ok \in BOOLEAN : BootBegin(ok)
    \/ \E ok \in BOOLEAN : BootSelect(ok)
    \/ \E ok \in BOOLEAN : BootCreateAll(ok)
    \/ \E ok \in BOOLEAN : BootCommit(ok)
    \/ BootSleep

SpecDb == InitDb /\ [][NextDb]_vars /\ WF_vars(NextDb)

(***************************************************************************)
(* Token claims (checked under SpecTok)                                    *)
(***************************************************************************)
\* the ttl a call asks for: the given expires_delta, 60 minutes when none
Ttl(delta) == IF delta.given THEN delta.ticks ELSE DefaultDelta

Accepts(token, i) == decode_token(token, JWT_SECRET[i], now).k = "return"
SignedFor(token, i) ==
    /\ token.wf
    /\ token.alg = ALGORITHM
    /\ token.mac = HMAC(JWT_SECRET[i], token.alg, token.sub, token.exp)

\* C1: a token of create_access_token is accepted by decode_token if and
\* only if its signature checks out against the current JWT_SECRET and the
\* current time is strictly before the embedded expiry; at the instant
\* equal to the embedded expiry it is rejected.
C1_AcceptedIffSignedAndStrictlyBeforeExpiry ==
    (resp.op = "decode" /\ \E r \in issued : r.tok = resp.token) =>
        (resp.out.k = "return" <=>
            /\ SignedFor(resp.token, resp.inst)
            /\ resp.t < resp.token.exp * TicksPerSec)

\* C2: for every ttl, zero and negative included, the embedded expiry is
\* current time + ttl, so a token issued with a zero or negative ttl fails
\* verification whenever it is verified.
C2_NonPositiveTtlNeverVerifies ==
    \A r \in issued :
        (r.delta.given /\ r.delta.ticks <= 0) =>
            /\ r.tok.exp = timegm(r.at + r.delta.ticks)
            /\ (resp.op = "decode" /\ resp.token = r.tok) => resp.out.k = "raise"

\* C3: for a non-empty subject and a positive ttl, decoding the issued token
\* with the issuing secret before the expiry succeeds and yields exactly the
\* subject; get_current_user then answers with the user of that email.
C3_RoundTripsSubject ==
    \A r \in issued :
        (r.sub \notin {"", NoSub} /\ Ttl(r.delta) > 0 /\ now < r.at + Ttl(r.delta)) =>
            LET out == decode_token(r.tok, JWT_SECRET[r.by], now)
                ans == get_current_user(r.tok, JWT_SECRET[r.by], now, users)
            IN  /\ out.k = "return"
                /\ out.v.sub = r.sub
                /\ UserByEmail(users, r.sub) # {} =>
                      (ans.status = 200 /\ ans.body.email = r.sub)

C3_Witness ==
    /\ resp.op = "me"
    /\ resp.ans.status = 200
    /\ \E r \in issued :
          /\ r.tok = resp.token
          /\ r.delta.given /\ r.delta.ticks > 0
          /\ resp.ans.body.email = r.sub
          /\ r.at < now /\ now < r.at + r.delta.ticks

\* C4: a token is rejected by every process whose secret differs from the
\* one that signed it; with no JWT_SECRET supplied to the issuing process,
\* every other process (another instance, the service restarted) rejects it.
C4_OtherSecretRejects ==
    \A r \in issued, j \in Inst :
        /\ JWT_SECRET[j] # JWT_SECRET[r.by] =>
              /\ ~Accepts(r.tok, j)
              /\ get_current_user(r.tok, JWT_SECRET[j], now, users) = cred_exc
        /\ (env[r.by] \in {None, ""} /\ j # r.by) => ~Accepts(r.tok, j)

C4_Witness ==
    /\ resp.op = "decode"
    /\ resp.out.k = "raise"
    /\ \E r \in issued :
          /\ r.tok = resp.token
          /\ resp.inst # r.by
          /\ env[r.by] \in {None, ""}
          /\ Accepts(r.tok, r.by)

\* C5: every rejection of a presented token by get_current_user (bad
\* signature, malformed string, expired, no subject) is the one answer
\* 401 "Invalid credentials"; none is another error or an unhandled exception.
C5_RejectionsAreOne401 ==
    /\ \A i \in Inst, tok \in Presentable :
          LET ans == get_current_user(tok, JWT_SECRET[i], now, users)
          IN  ans.status # 200 => ans = cred_exc
    /\ resp.op = "me" => (resp.ans.status = 200 \/ resp.ans = cred_exc)

C5_Witness ==
    /\ resp.op = "me"
    /\ resp.ans = cred_exc
    /\ LET out == decode_token(resp.token, JWT_SECRET[resp.inst], now)
       IN  out.k = "raise" /\ out.v = "ExpiredSignatureError"
    /\ \E i \in Inst, tok \in Presentable : ~tok.wf
    /\ \E i \in Inst, tok \in Presentable : tok.wf /\ ~SignedFor(tok, i)

\* C6: with the secret unchanged and time non-decreasing, a token issued
\* with a positive ttl verifies at every instant from issuance until its
\* expiry, whatever operations happen in between, and a token whose
\* verification failed on expiry never verifies again.
C6_ValidUntilExpiryThenNever ==
    /\ \A r \in issued :
          (Ttl(r.delta) > 0 /\ now < r.at + Ttl(r.delta)) => Accepts(r.tok, r.by)
    /\ \A tok \in expiredSeen, i \in Inst : ~Accepts(tok, i)

C6_Witness ==
    /\ resp.op = "decode"
    /\ resp.out.k = "raise"
    /\ resp.token \in expiredSeen
    /\ \E r \in issued :
          /\ r.tok = resp.token
          /\ r.delta.given /\ r.delta.ticks > 0
          /\ now > r.at + r.delta.ticks

(***************************************************************************)
(* The shared secret (checked under Spec)                                  *)
(***************************************************************************)
\* C7: the signing secret is set once at process start and no operation
\* changes it; every call, however the calls of the two processes
\* interleave, works with the secret of the start: each token handed out is
\* the one the call alone returns at its clock value, and each verification
\* answers as it does alone at its clock value.
C7_SecretSetOnceResultsAsAlone ==
    /\ \A i \in Inst : JWT_SECRET[i] = StartupSecret(env[i], i)
    /\ \A r \in issued :
          r.tok = create_access_token(r.sub, r.delta,
                                      StartupSecret(env[r.by], r.by), r.at)
    /\ resp.op = "me" =>
          \E t \in 0..now :
              LET alone == get_current_user(resp.token,
                               StartupSecret(env[resp.inst], resp.inst), t, users)
              IN  resp.ans.status = alone.status /\ resp.ans.detail = alone.detail

C7_Witness ==
    /\ resp.op = "me"
    /\ resp.ans.status = 200
    /\ creds # {}
    /\ saltsDrawn = MaxSalts
    /\ \E r \in issued : r.by # resp.inst /\ r.at < now

(***************************************************************************)
(* Credential claims (checked under SpecPw)                                *)
(***************************************************************************)
\* the first 72 bytes of the UTF-8 encoding of a password
First72(p) == Slice(Utf8Table[p], BcryptMaxBytes)

\* C8: for passwords p1 and p2 (p2 non-empty) and every salt,
\* verify_password(p1, get_password_hash(p2)) is true exactly when the first
\* 72 bytes of the UTF-8 encodings of p1 and p2 are equal.
C8_VerifyIffFirst72BytesEqual ==
    \A c \in creds, p1 \in Passwords :
        Encodable(p1) =>
            LET out == verify_password(p1, c.hash)
            IN  /\ out.k = "return"
                /\ out.v <=> (First72(p1) = First72(c.pw))

C8_Witness ==
    /\ resp.op = "verify"
    /\ resp.out.k = "return"
    /\ resp.out.v
    /\ \E c \in creds :
          /\ c.hash = resp.hashed
          /\ c.pw # resp.pw
          /\ Len(Utf8Table[c.pw]) > BcryptMaxBytes
    /\ \E c \in creds, p1 \in Passwords :
          /\ Encodable(p1)
          /\ Len(First72(p1)) = BcryptMaxBytes
          /\ Len(First72(c.pw)) = BcryptMaxBytes
          /\ ~verify_password(p1, c.hash).v

\* C9: every credential get_password_hash(p) returns verifies against p,
\* and two calls, on the same p too, return two different encoded values.
C9_EveryHashVerifiesAndCallsDiffer ==
    /\ \A c \in creds :
          LET out == verify_password(c.pw, c.hash)
          IN  out.k = "return" /\ out.v
    /\ \A c1, c2 \in creds : c1.call # c2.call => c1.hash # c2.hash

C9_Witness ==
    /\ resp.op = "verify"
    /\ resp.out.k = "return"
    /\ resp.out.v
    /\ \E c1, c2 \in creds :
          /\ c1.call # c2.call
          /\ c1.pw = c2.pw
          /\ resp.pw = c1.pw
          /\ resp.hashed = c2.hash

\* C10: verify_password never raises: for every plaintext and every stored
\* value, a malformed or corrupt encoding included, it returns a boolean,
\* false for every failure; login then answers a corrupt stored hash with
\* the same 400 "Incorrect email or password" as a wrong password.
C10_VerifyNeverRaises ==
    /\ \A p \in Passwords, h \in StoredValues :
          LET out == verify_password(p, h)
          IN  /\ out.k = "return"
              /\ out.v \in BOOLEAN
              /\ (h.kind # "bcrypt" \/ ~Encodable(p)) => ~out.v
    /\ resp.op = "verify" => resp.out.k = "return"
    /\ \A i \in Inst, p \in Passwords :
          login(users, "carol@x.com", p, JWT_SECRET[i], now).ans
              = Answer(400, "Incorrect email or password", NoBody)
    /\ resp.op = "login" => resp.ans.status \in {200, 400}

C10_Witness ==
    /\ resp.op = "login"
    /\ resp.ans = Answer(400, "Incorrect email or password", NoBody)
    /\ \E u \in users : u.hashed_password.kind # "bcrypt"
    /\ \E c \in creds : verify_password(<<Surrogate>>, c.hash) = Ret(FALSE)

(***************************************************************************)
(* Registration claims (checked under Spec)                                *)
(***************************************************************************)
\* C11: get_password_hash called with the empty password raises ValueError,
\* the invalid-input error, and returns no credential; a registration
\* request with an empty password stores no user and hands out no token.
C11_EmptyPasswordNoCredentialNoUser ==
    [][ /\ (resp'.op = "hash" /\ resp'.pw = <<>> /\ HashPassword(<<>>)) =>
              /\ resp'.out.k = "raise"
              /\ resp'.out.v = "ValueError"
              /\ creds' = creds
              /\ \A c \in creds' : c.pw # <<>>
        /\ \A i \in Inst :
              (resp'.op = "register" /\ Register(i, "alice@example.com", <<>>)) =>
                  /\ users' = users
                  /\ issued' = issued
                  /\ resp'.token = NoToken
                  /\ resp'.ans.status \notin {200, 201}
      ]_vars

C11_Witness ==
    /\ resp.op = "register"
    /\ resp.ans.detail = "Password cannot be empty"
    /\ resp.token = NoToken
    /\ UserByEmail(users, "alice@example.com") = {}
    /\ issued = {}

\* C12: register called with an email that belongs to a stored user answers
\* 400 "Email already registered", adds no user and hands out no token.
C12_DuplicateEmailAnswers400 ==
    [][ \A i \in Inst, p \in ShortPasswords :
          (/\ UserByEmail(users, "alice@example.com") # {}
           /\ resp'.op = "register"
           /\ Register(i, "alice@example.com", p)) =>
              /\ resp'.ans.status = 400
              /\ resp'.ans.detail = "Email already registered"
              /\ users' = users
              /\ resp'.token = NoToken
      ]_vars

(***************************************************************************)
(* Business ideas (checked under SpecIdee)                                 *)
(***************************************************************************)
\* C13: delete_idee removes the idea, and only it, when its id matches and
\* it belongs to the authenticated user; for an id that does not exist or
\* belongs to another user it answers 404 "Idee introuvable ou non
\* autorisee" and leaves every stored idea as it was.
C13_DeleteOwnElse404 ==
    [][ \A i \in Inst, tok \in Presentable, id \in IdeeIds :
          (/\ resp'.op = "delete_idee"
           /\ resp'.inst = i /\ resp'.idee_id = id /\ resp'.token = tok
           /\ DeleteIdee(i, tok, id)) =>
              LET auth == get_current_user(tok, JWT_SECRET[i], now, users)
                  own == {d \in idees : d.id = id /\ d.userId = auth.body.id}
              IN  auth.status = 200 =>
                      IF own # {}
                      THEN idees' = idees \ own /\ resp'.ans.status = 200
                      ELSE /\ idees' = idees
                           /\ resp'.ans.status = 404
                           /\ resp'.ans.detail = IdeeIntrouvable
      ]_vars

(***************************************************************************)
(* The guides endpoint (checked under SpecPdf)                             *)
(***************************************************************************)
\* C14: generate_pdf returns the generated file: the PDF build_pdf wrote
\* still exists at its path when the returned FileResponse is sent, the
\* temporary directory holding it is not removed before, and the client is
\* served the file.
C14_FileExistsWhenSent ==
    \A r \in Req :
        /\ pdf[r].pc = "returned" => PdfPath(pdf[r]) \in fs
        /\ pdf[r].pc = "sent" => pdf[r].out = 200

(***************************************************************************)
(* Startup (checked under SpecDb)                                          *)
(***************************************************************************)
\* what holds of init_db_with_retry at every moment of its run
BootSafe ==
    /\ boot.attempt <= boot.max_attempts
    /\ boot.failed <= boot.attempt
    /\ boot.created => boot.checked
    /\ boot.tables => (boot.created /\ boot.checked)
    /\ boot.pc # "done" => boot.result = None
    /\ boot.pc = "done" =>
          /\ boot.result \in {"True", "False"}
          /\ boot.result = "True" =>
                (boot.tables /\ boot.failed = boot.attempt - 1)
          /\ boot.result = "False" <=> boot.failed = boot.max_attempts

\* C15: init_db_with_retry always terminates; it makes at most max_attempts
\* attempts, returns True at the first attempt that succeeds and makes no
\* attempt after it, returns False exactly when all max_attempts attempts
\* failed, and creates the tables only in an attempt whose connection check
\* succeeded.
C15_TerminatesWithinMaxAttempts ==
    /\ []BootSafe
    /\ <>(boot.pc = "done")

C15_Witness ==
    /\ boot.pc = "done"
    /\ boot.result = "True"
    /\ boot.tables
    /\ boot.failed >= 1
    /\ boot.attempt < boot.max_attempts

====
